---- MODULE Spec2Model ----
(***************************************************************************)
(* darkflow-front: the /recognize handler of main.go, the file system it   *)
(* shares between concurrent requests, and the external recognition        *)
(* service (darkflow) it posts jobs to.                                    *)
(***************************************************************************)
EXTENDS Integers, Sequences, FiniteSets, TLC

\* ------------------------------------------------------------------ bounds
MaxUrls == 2          \* longest image_urls list a request carries
MaxOutFiles == 2      \* most files darkflow writes for one job before it answers

\* --------------------------------------------------------------- constants
IdLen == 8
StatusOK == 200
StatusBadRequest == 400
StatusInternalServerError == 500

Requests == {"r1", "r2"}

\* ----------------------------------------------------------- configuration
inputDir == <<"input">>
outputDir == <<"output">>

\* filepath.Join on clean components: the path as its list of components
Join(dir, name) == Append(dir, name)

\* ------------------------------------------------------------ ID generator
HexChars == <<"0", "1", "2", "3", "4", "5", "6", "7",
              "8", "9", "a", "b", "c", "d", "e", "f">>

RECURSIVE EncodeToString(_)
EncodeToString(buf) ==
    IF buf = <<>> THEN <<>>
    ELSE <<HexChars[(Head(buf) \div 16) + 1], HexChars[(Head(buf) % 16) + 1]>>
         \o EncodeToString(Tail(buf))

\* the bytes rand.Read may leave in a buffer of n bytes (two of the 256^n)
RandBytes == {0, 171}
RandBufs(n) == {[k \in 1..n |-> b] : b \in RandBytes}

generateID(len, buf) == SubSeq(EncodeToString(buf), 1, len)

IDs == {generateID(IdLen, b) : b \in RandBufs((IdLen - 1) \div 2 + 1)}
NoID == <<>>

\* ------------------------------------------------------------- file system
\* fs maps a job directory path to [exists, files]; a file is [name, data].
Roots == {inputDir, outputDir}
Paths == {Join(root, id) : root \in Roots, id \in IDs}
NoDir == [exists |-> FALSE, files |-> {}]

Names(dir) == {f.name : f \in dir.files}

WriteFile(dir, name, data) ==
    [dir EXCEPT !.files = {f \in @ : f.name # name} \cup {[name |-> name, data |-> data]}]

\* os.Mkdir: fails when the directory exists or the system refuses
\* variant: an existing directory is accepted, as os.MkdirAll would
MkdirFails_all(f, path, envErr) == envErr

MkdirFails(f, path, envErr) == envErr \/ f[path].exists

Mkdir(f, path) == [f EXCEPT ![path] = [exists |-> TRUE, files |-> {}]]

\* fmt.Sprintf("%d.jpg", i)
\* variant: the position is left out of the name
FileName_const(i) == "0.jpg"

FileName(i) == ToString(i) \o ".jpg"

\* names darkflow gives its result files, and one it writes late
OutName(k) == "out" \o ToString(k) \o ".png"
OutNames == {OutName(k) : k \in 1..MaxOutFiles}
LateName == "zlate.png"

\* position of a name in the byte order of file names (digits before letters)
Rank(name) ==
    IF \E k \in 0..(MaxUrls + 1) : FileName(k) = name
    THEN CHOOSE k \in 0..(MaxUrls + 1) : FileName(k) = name
    ELSE IF name = LateName THEN 1000
    ELSE 100 + CHOOSE k \in 1..MaxOutFiles : OutName(k) = name

RECURSIVE SortByName(_)
SortByName(S) ==
    IF S = {} THEN <<>>
    ELSE LET m == CHOOSE x \in S : \A y \in S : Rank(x) <= Rank(y)
         IN <<m>> \o SortByName(S \ {m})

\* ioutil.ReadDir: the entry names sorted by filename, or an error
ReadDir(f, path, envErr) ==
    IF envErr \/ ~f[path].exists
    THEN [err |-> TRUE, files |-> <<>>]
    ELSE [err |-> FALSE, files |-> SortByName(Names(f[path]))]

Dir(path) == SubSeq(path, 1, Len(path) - 1)
Base(path) == path[Len(path)]

\* ------------------------------------------------------------------ fetcher
GoodURL == "https://img.example/cat.jpg"
BadURL == "https://down.example/dog.jpg"
URLs == {GoodURL, BadURL}
Unreachable == {BadURL}

\* what can go wrong locally while a reachable image is stored
WgetOutcomes == {"ok", "create_err", "copy_err"}

\* variant: the error of Get is dropped
GetFails_never(from) == FALSE

\* insecureClient.Get(from): an error when the host cannot be reached
GetFails(from) == from \in Unreachable

\* wget(from, to): [err, fs] after the call
wget(f, from, to, outcome) ==
    IF GetFails(from) THEN [err |-> TRUE, fs |-> f]
    ELSE IF outcome = "create_err" \/ ~f[Dir(to)].exists THEN [err |-> TRUE, fs |-> f]
    ELSE IF outcome = "copy_err"
         THEN [err |-> TRUE,
               fs |-> [f EXCEPT ![Dir(to)] = WriteFile(@, Base(to), <<"partial", from>>)]]
         ELSE [err |-> FALSE,
               fs |-> [f EXCEPT ![Dir(to)] = WriteFile(@, Base(to), <<"body", from>>)]]

\* ---------------------------------------------------------- response writer
\* http.ResponseWriter: hdr is the header map, wrote/status/sent the status line
\* and the headers that went out with it, body what the client received.
CORS == {"Access-Control-Allow-Origin", "Access-Control-Allow-Methods",
         "Access-Control-Allow-Headers"}
NoPayload == [kind |-> "none", items |-> <<>>]
NewWriter == [hdr |-> {}, wrote |-> FALSE, status |-> 0, sent |-> {}, body |-> NoPayload]

\* variant: no header is set
setupResponse_none(wr) == wr

setupResponse(wr) == [wr EXCEPT !.hdr = @ \cup CORS]

\* the first WriteHeader of a response wins, a later one is superfluous
WriteHeader(wr, code) ==
    IF wr.wrote THEN wr
    ELSE [wr EXCEPT !.wrote = TRUE, !.status = code, !.sent = wr.hdr]

\* statuses whose response may carry a body
BodyAllowed(code) == ~(code \in 100..199 \/ code = 204 \/ code = 304)

\* json.NewEncoder(w).Encode(payload): [err, w]
Encode(wr, payload, ioErr) ==
    LET w1 == WriteHeader(wr, StatusOK)
    IN IF ioErr \/ ~BodyAllowed(w1.status)
       THEN [err |-> TRUE, w |-> w1]
       ELSE [err |-> FALSE, w |-> [w1 EXCEPT !.body = payload]]

jsonResponse(wr, status, payload, ioErr) ==
    LET w1 == WriteHeader(setupResponse(wr), status)
        e == Encode(w1, payload, ioErr)
    IN IF e.err
       THEN WriteHeader(e.w, StatusInternalServerError)
       ELSE [e.w EXCEPT !.hdr = @ \cup {"Content-Type"}]

jsonError(wr, status, msg, ioErr) ==
    jsonResponse(wr, status, [kind |-> "reason", items |-> <<msg>>], ioErr)

\* the server completes a response whose handler returned without a status
Finish(wr) == WriteHeader(wr, StatusOK)

\* ------------------------------------------------------------ request body
RECURSIVE SeqsUpTo(_, _)
SeqsUpTo(S, n) ==
    IF n = 0 THEN {<<>>}
    ELSE LET shorter == SeqsUpTo(S, n - 1)
         IN shorter \cup {Append(q, x) : q \in {p \in shorter : Len(p) = n - 1}, x \in S}

\* a body is garbage, the JSON null, or an object; image_urls is absent, null,
\* a number or an array of strings; other tells whether further fields are there
Bodies ==
    {[kind |-> "garbage", image_urls |-> "absent", urls |-> <<>>, other |-> FALSE],
     [kind |-> "null", image_urls |-> "absent", urls |-> <<>>, other |-> FALSE]}
    \cup {[kind |-> "object", image_urls |-> t, urls |-> <<>>, other |-> o] :
             t \in {"absent", "null", "number", "array"}, o \in BOOLEAN}
    \cup {[kind |-> "object", image_urls |-> "array", urls |-> u, other |-> FALSE] :
             u \in SeqsUpTo(URLs, MaxUrls)}
NoBody == [kind |-> "none", image_urls |-> "absent", urls |-> <<>>, other |-> FALSE]

\* json.NewDecoder(r.Body).Decode(&req): [err, ImageURLs]
Decode(b) ==
    IF b.kind = "garbage" THEN [err |-> TRUE, ImageURLs |-> <<>>]
    ELSE IF b.kind = "null" THEN [err |-> FALSE, ImageURLs |-> <<>>]
    ELSE IF b.image_urls = "number" THEN [err |-> TRUE, ImageURLs |-> <<>>]
    ELSE IF b.image_urls = "array" THEN [err |-> FALSE, ImageURLs |-> b.urls]
    ELSE [err |-> FALSE, ImageURLs |-> <<>>]

\* variant: the length test is left out
Rejected_errOnly(d) == d.err

\* err != nil || len(req.ImageURLs) == 0
Rejected(d) == d.err \/ Len(d.ImageURLs) = 0

\* --------------------------------------------------------- recognition call
\* the statuses darkflow is taken to answer with: OK, No Content, Bad Gateway
DarkflowStatuses == {StatusOK, 204, 502}
NoResp == [err |-> FALSE, StatusCode |-> 0]
NoJob == [input_dir |-> <<>>, output_dir |-> <<>>]

\* variant: only 4xx and 5xx count as failures
StatusFails_4xx5xx(code) == code >= 400

\* resp.StatusCode != http.StatusOK
StatusFails(code) == code # StatusOK

\* variant: the two roots are mixed up
InputPath_out(id_) == Join(outputDir, id_)

\* filepath.Join(inputDir, id)
InputPath(id_) == Join(inputDir, id_)

\* filepath.Join(outputDir, id)
OutputPath(id_) == Join(outputDir, id_)

\* variant: only the first entry is returned
Imgs_first(id_, files) ==
    [k \in 1..(IF Len(files) > 0 THEN 1 ELSE 0) |-> Join(Join(<<"output">>, id_), files[k])]

\* imgs[i] = filepath.Join("/output", id, files[i].Name())
Imgs(id_, files) == [k \in 1..Len(files) |-> Join(Join(<<"output">>, id_), files[k])]

\* -------------------------------------------------------------------- state
VARIABLES
    pc,       \* where each request's handler stands
    method,   \* r.Method
    body,     \* r.Body as received
    req,      \* req.ImageURLs once decoded
    id,       \* the job ID
    i,        \* index of the download loop
    w,        \* the response writer
    dfreq,    \* the darkflowRequest on its way to the service
    resp,     \* what http.Post returned
    fs,       \* job directories under the input and output roots
    hist      \* history of each request: what it did, for the properties

vars == <<pc, method, body, req, id, i, w, dfreq, resp, fs, hist>>

\* POST stands for every method but OPTIONS: the handler tells no others apart
Methods == {"OPTIONS", "POST"}

NoHist == [posted |-> FALSE, listed |-> FALSE, listing |-> <<>>, attempts |-> <<>>,
           dlFailed |-> FALSE, mkdirTried |-> FALSE, dirExisted |-> FALSE,
           mkdirErr |-> FALSE, intended |-> 0, writeErr |-> FALSE]

Init ==
    /\ pc = [r \in Requests |-> "idle"]
    /\ method = [r \in Requests |-> "none"]
    /\ body = [r \in Requests |-> NoBody]
    /\ req = [r \in Requests |-> <<>>]
    /\ id = [r \in Requests |-> NoID]
    /\ i = [r \in Requests |-> 0]
    /\ w = [r \in Requests |-> NewWriter]
    /\ dfreq = [r \in Requests |-> NoJob]
    /\ resp = [r \in Requests |-> NoResp]
    /\ fs = [p \in Paths |-> NoDir]
    /\ hist = [r \in Requests |-> NoHist]

\* the handler answers with jsonResponse/jsonError and returns
Reply(r, status, payload, ioErr, h) ==
    LET w1 == WriteHeader(setupResponse(w[r]), status)
    IN /\ w' = [w EXCEPT ![r] = Finish(jsonResponse(@, status, payload, ioErr))]
       /\ hist' = [hist EXCEPT ![r] = [h EXCEPT !.intended = status,
                                                !.writeErr = Encode(w1, payload, ioErr).err]]
       /\ pc' = [pc EXCEPT ![r] = "done"]

ReplyError(r, status, msg, ioErr, h) ==
    Reply(r, status, [kind |-> "reason", items |-> <<msg>>], ioErr, h)

\* recognize, lines 67-70: the OPTIONS short cut
Options(r) ==
    /\ pc[r] = "idle"
    /\ \E b \in Bodies :
        /\ method' = [method EXCEPT ![r] = "OPTIONS"]
        /\ body' = [body EXCEPT ![r] = b]
    /\ w' = [w EXCEPT ![r] = Finish(setupResponse(@))]
    /\ pc' = [pc EXCEPT ![r] = "done"]
    /\ UNCHANGED <<req, id, i, dfreq, resp, fs, hist>>

\* recognize, lines 71-78: decode and validate the body
DecodeBody(r) ==
    /\ pc[r] = "idle"
    /\ \E m \in Methods \ {"OPTIONS"}, b \in Bodies, ioErr \in BOOLEAN :
        LET d == Decode(b)
        IN /\ method' = [method EXCEPT ![r] = m]
           /\ body' = [body EXCEPT ![r] = b]
           /\ IF Rejected(d)
              THEN /\ ReplyError(r, StatusBadRequest, "invalid json body", ioErr, hist[r])
                   /\ UNCHANGED req
              ELSE /\ req' = [req EXCEPT ![r] = d.ImageURLs]
                   /\ pc' = [pc EXCEPT ![r] = "mkdir"]
                   /\ UNCHANGED <<w, hist>>
    /\ UNCHANGED <<id, i, dfreq, resp, fs>>

\* recognize, lines 79-86: generate the job ID and create its input directory
AllocJob(r) ==
    /\ pc[r] = "mkdir"
    /\ \E buf \in RandBufs((IdLen - 1) \div 2 + 1), envErr \in BOOLEAN, ioErr \in BOOLEAN :
        LET newid == generateID(IdLen, buf)
            path == InputPath(newid)
            h == [hist[r] EXCEPT !.mkdirTried = TRUE, !.dirExisted = fs[path].exists,
                                 !.mkdirErr = envErr]
        IN /\ id' = [id EXCEPT ![r] = newid]
           /\ IF MkdirFails(fs, path, envErr)
              THEN /\ ReplyError(r, StatusInternalServerError,
                                 "could not create input dir", ioErr, h)
                   /\ UNCHANGED <<fs, i>>
              ELSE /\ fs' = Mkdir(fs, path)
                   /\ i' = [i EXCEPT ![r] = 0]
                   /\ pc' = [pc EXCEPT ![r] = IF 0 < Len(req[r]) THEN "wget" ELSE "post"]
                   /\ hist' = [hist EXCEPT ![r] = h]
                   /\ UNCHANGED w
    /\ UNCHANGED <<method, body, req, dfreq, resp>>

\* recognize, lines 87-93: one turn of the download loop
Download(r) ==
    /\ pc[r] = "wget"
    /\ i[r] < Len(req[r])
    /\ \E outcome \in WgetOutcomes, ioErr \in BOOLEAN :
        LET to == Join(InputPath(id[r]), FileName(i[r]))
            res == wget(fs, req[r][i[r] + 1], to, outcome)
            h == [hist[r] EXCEPT !.attempts = Append(@, i[r]), !.dlFailed = res.err]
        IN /\ fs' = res.fs
           /\ IF res.err
              THEN /\ ReplyError(r, StatusInternalServerError, "wget", ioErr, h)
                   /\ UNCHANGED i
              ELSE /\ i' = [i EXCEPT ![r] = @ + 1]
                   /\ pc' = [pc EXCEPT ![r] = IF i[r] + 1 < Len(req[r]) THEN "wget" ELSE "post"]
                   /\ hist' = [hist EXCEPT ![r] = h]
                   /\ UNCHANGED w
    /\ UNCHANGED <<method, body, req, id, dfreq, resp>>

\* recognize, lines 95-111: encode the job and post it to darkflow
Post(r) ==
    /\ pc[r] = "post"
    /\ \E netErr \in BOOLEAN, ioErr \in BOOLEAN :
        LET job == [input_dir |-> InputPath(id[r]), output_dir |-> OutputPath(id[r])]
            h == [hist[r] EXCEPT !.posted = TRUE]
        IN IF netErr
           THEN /\ ReplyError(r, StatusInternalServerError, "could not call darkflow", ioErr, h)
                /\ UNCHANGED dfreq
           ELSE /\ dfreq' = [dfreq EXCEPT ![r] = job]
                /\ pc' = [pc EXCEPT ![r] = "await"]
                /\ hist' = [hist EXCEPT ![r] = h]
                /\ UNCHANGED w
    /\ UNCHANGED <<method, body, req, id, i, resp, fs>>

\* the recognition service handles the job: it may create the output directory,
\* write result files into it, and answers with a status (or the answer is lost)
Darkflow(r) ==
    /\ pc[r] = "await"
    /\ \E made \in BOOLEAN, n \in 0..MaxOutFiles, code \in DarkflowStatuses, lost \in BOOLEAN :
        LET S == {OutName(k) : k \in 1..n}
        IN /\ ~made => n = 0
           /\ lost => code = StatusOK
           /\ fs' = IF made
                    THEN [fs EXCEPT ![dfreq[r].output_dir] =
                             [exists |-> TRUE,
                              files |-> {f \in @.files : f.name \notin S}
                                        \cup {[name |-> m, data |-> <<"result", m>>] : m \in S}]]
                    ELSE fs
           /\ resp' = [resp EXCEPT ![r] = IF lost THEN [err |-> TRUE, StatusCode |-> 0]
                                          ELSE [err |-> FALSE, StatusCode |-> code]]
    /\ pc' = [pc EXCEPT ![r] = "collect"]
    /\ UNCHANGED <<method, body, req, id, i, w, dfreq, hist>>

\* the recognition service writes one more file after it has answered
DarkflowLate(r) ==
    /\ pc[r] \in {"collect", "done"}
    /\ dfreq[r] # NoJob
    /\ LateName \notin Names(fs[dfreq[r].output_dir])
    /\ fs' = [fs EXCEPT ![dfreq[r].output_dir] =
                 [exists |-> TRUE,
                  files |-> @.files \cup {[name |-> LateName, data |-> <<"result", LateName>>]}]]
    /\ UNCHANGED <<pc, method, body, req, id, i, w, dfreq, resp, hist>>

\* recognize, lines 107-132: the answer of darkflow, the listing, the response
Collect(r) ==
    /\ pc[r] = "collect"
    /\ \E envErr \in BOOLEAN, ioErr \in BOOLEAN :
        IF resp[r].err
        THEN ReplyError(r, StatusInternalServerError, "could not call darkflow", ioErr, hist[r])
        ELSE IF StatusFails(resp[r].StatusCode)
        THEN ReplyError(r, resp[r].StatusCode, "darkflow returned error", ioErr, hist[r])
        ELSE LET rd == ReadDir(fs, OutputPath(id[r]), envErr)
                 h == [hist[r] EXCEPT !.listed = TRUE, !.listing = rd.files]
             IN IF rd.err
                THEN ReplyError(r, StatusInternalServerError,
                                "could not read output dir", ioErr, h)
                ELSE Reply(r, StatusOK,
                           [kind |-> "array", items |-> Imgs(id[r], rd.files)], ioErr, h)
    /\ UNCHANGED <<method, body, req, id, i, dfreq, resp, fs>>

HandlerStep(r) ==
    Options(r) \/ DecodeBody(r) \/ AllocJob(r) \/ Download(r) \/ Post(r) \/ Collect(r)

Next ==
    \E r \in Requests :
        \/ Options(r)
        \/ DecodeBody(r)
        \/ AllocJob(r)
        \/ Download(r)
        \/ Post(r)
        \/ Darkflow(r)
        \/ DarkflowLate(r)
        \/ Collect(r)

Spec == Init /\ [][Next]_vars

\* =============================================================== properties
Done(r) == pc[r] = "done"
NotOptions(r) == method[r] \notin {"none", "OPTIONS"}
Succeeded(r) == Done(r) /\ NotOptions(r) /\ w[r].status = 200
JobInput(r) == <<"input", id[r]>>
JobOutput(r) == <<"output", id[r]>>

\* a body that is no JSON, or JSON without a non-empty image_urls list of strings
BadBody(b) ==
    \/ b.kind \in {"garbage", "null"}
    \/ b.kind = "object" /\ (b.image_urls # "array" \/ b.urls = <<>>)

\* C1: a request that is not OPTIONS and whose body fails to decode, or has a
\* missing or empty image_urls list (other fields or not), is answered at once
\* with status 400.
C1_BadBodyIs400 ==
    \A r \in Requests :
        (NotOptions(r) /\ BadBody(body[r])) =>
            (Done(r) /\ w[r].wrote /\ w[r].status = 400 /\ id[r] = NoID)

C1_Witness ==
    \E r \in Requests :
        /\ NotOptions(r) /\ Done(r) /\ w[r].status = 400
        /\ body[r].kind = "object" /\ body[r].image_urls = "array"
        /\ body[r].urls = <<>> /\ body[r].other

\* C2: a request whose list holds an unreachable URL, or one of whose downloads
\* failed, never calls the recognition service, and ends with status 500.
C2_UnreachableIs500NoCall ==
    \A r \in Requests :
        ((NotOptions(r) /\ \E k \in 1..Len(body[r].urls) : body[r].urls[k] \in Unreachable)
         \/ hist[r].dlFailed) =>
            /\ ~hist[r].posted
            /\ dfreq[r] = NoJob
            /\ pc[r] \notin {"post", "await", "collect"}
            /\ Done(r) => w[r].status = 500

C2_Witness ==
    \E r \in Requests :
        /\ Done(r) /\ body[r].urls = <<GoodURL, BadURL>>
        /\ hist[r].attempts = <<0, 1>> /\ hist[r].dlFailed
        /\ w[r].status = 500 /\ ~hist[r].posted

C4_DistinctJobs ==
    \A r, q \in Requests :
        (r # q /\ Succeeded(r) /\ Succeeded(q)) =>
            /\ id[r] # id[q]
            /\ \A k \in 1..Len(w[r].body.items) :
                  /\ SubSeq(w[r].body.items[k], 1, 2) = <<"output", id[r]>>
                  /\ SubSeq(w[r].body.items[k], 1, 2) # <<"output", id[q]>>

C4_Witness ==
    \E r, q \in Requests :
        /\ r # q /\ Succeeded(r) /\ Succeeded(q)
        /\ Len(w[r].body.items) > 0 /\ Len(w[q].body.items) > 0

\* C5: the array of a 200 success response has one element per entry that was in
\* <output-root>/<id> when the handler listed it, in the order of the listing,
\* each /output/<id>/<entry-name>; the number of input URLs plays no part.
C5_OneUrlPerEntry ==
    [][\A r \in Requests :
          (pc[r] = "collect" /\ pc'[r] = "done"
           /\ w'[r].status = 200 /\ w'[r].body.kind = "array") =>
              LET items == w'[r].body.items
                  entries == Names(fs[JobOutput(r)])
                  listing == hist'[r].listing
              IN /\ fs[JobOutput(r)].exists
                 /\ Len(items) = Cardinality(entries)
                 /\ Len(listing) = Len(items)
                 /\ {listing[k] : k \in 1..Len(listing)} = entries
                 /\ \A k \in 1..Len(items) : items[k] = <<"output", id[r], listing[k]>>]_vars

C5_Witness ==
    \E r \in Requests :
        /\ Succeeded(r) /\ w[r].body.kind = "array"
        /\ Len(w[r].body.items) = 2 /\ Len(req[r]) = 1
        /\ Cardinality(fs[JobOutput(r)].files) = 3

\* C6: an OPTIONS request, whatever its body and whatever else is going on,
\* returns 200 with the cross-origin headers and no body, and allocates no
\* job, downloads nothing and calls no recognition service.
C6_OptionsOnlyHeaders ==
    \A r \in Requests :
        method[r] = "OPTIONS" =>
            /\ Done(r) /\ w[r].status = 200 /\ CORS \subseteq w[r].sent
            /\ w[r].body = NoPayload
            /\ id[r] = NoID /\ hist[r] = NoHist /\ dfreq[r] = NoJob /\ resp[r] = NoResp

C6_Witness ==
    \E r, q \in Requests :
        /\ method[r] = "OPTIONS" /\ Done(r) /\ body[r].urls = <<BadURL>>
        /\ pc[q] = "await" /\ w[r].status = 200

\* C7: when the input directory of the generated ID already exists, or cannot
\* be created, the request ends with 500 at that step, downloads nothing,
\* calls no recognition service, and leaves the directories as they were.
C7_State ==
    \A r \in Requests :
        (hist[r].mkdirTried /\ (hist[r].dirExisted \/ hist[r].mkdirErr)) =>
            /\ Done(r) /\ w[r].status = 500
            /\ hist[r].attempts = <<>> /\ ~hist[r].posted /\ dfreq[r] = NoJob

C7_MkdirFailureAborts ==
    [][/\ C7_State'
       /\ \A r \in Requests :
             (pc[r] = "mkdir" /\ pc'[r] # "mkdir"
              /\ (fs[<<"input", id'[r]>>].exists \/ hist'[r].mkdirErr)) => fs' = fs]_vars

C7_Witness ==
    \E r \in Requests :
        /\ Done(r) /\ hist[r].dirExisted /\ ~hist[r].mkdirErr /\ w[r].status = 500
        /\ fs[JobInput(r)].files # {}

\* C8: no step of the handler, whatever the request and its outcome, creates,
\* writes or deletes anything under the output root; the output directories
\* change only by steps of the recognition service.
C8_OutputOwnedByService ==
    [][(\E j \in IDs : fs'[<<"output", j>>] # fs[<<"output", j>>]) =>
          /\ \E r \in Requests : Darkflow(r) \/ DarkflowLate(r)
          /\ ~ \E r \in Requests : HandlerStep(r)]_vars

C8_Witness ==
    \E r, q \in Requests :
        /\ Done(r) /\ hist[r].listed /\ w[r].status = 500 /\ ~fs[JobOutput(r)].exists
        /\ Succeeded(q) /\ fs[JobOutput(q)].files # {}

\* C9: the images of a request are fetched one at a time in list order, the
\* image at position k going to <input-root>/<id>/<k>.jpg; the first failed
\* download ends the request with 500, nothing is fetched after it, and the
\* directory and the files of the earlier positions stay on disk.
C9_SequentialDownloads ==
    \A r \in Requests :
        LET a == hist[r].attempts
            n == Len(a)
            stored == IF hist[r].dlFailed THEN n - 1 ELSE n
        IN /\ n <= Len(req[r])
           /\ \A k \in 1..n : a[k] = k - 1
           /\ n > 0 =>
                 /\ fs[JobInput(r)].exists
                 /\ \A k \in 0..(stored - 1) :
                       [name |-> ToString(k) \o ".jpg", data |-> <<"body", req[r][k + 1]>>]
                           \in fs[JobInput(r)].files
                 /\ \A f \in fs[JobInput(r)].files :
                       \E k \in 0..(n - 1) : f.name = ToString(k) \o ".jpg"
           /\ hist[r].dlFailed => (Done(r) /\ w[r].status = 500)
           /\ (~hist[r].dlFailed /\ pc[r] \in {"post", "await", "collect"}) => n = Len(req[r])

C9_Witness ==
    \E r, q \in Requests :
        /\ hist[r].dlFailed /\ req[r] = <<GoodURL, GoodURL>> /\ hist[r].attempts = <<0>>
        /\ hist[q].dlFailed /\ req[q] = <<GoodURL, BadURL>> /\ hist[q].attempts = <<0, 1>>
        /\ Cardinality(fs[JobInput(q)].files) = 1
        /\ Cardinality(fs[JobInput(r)].files) = 1

\* C10: when writing the JSON body fails after the intended status was set, the
\* client gets a bare 500 with no body.
C10_FailedWriteIs500 ==
    \A r \in Requests :
        (Done(r) /\ hist[r].writeErr) => (w[r].status = 500 /\ w[r].body = NoPayload)

====
